---- MODULE Spec2Model ----
(***************************************************************************)
(* A model of the kvs storage engine (src/src/kv.rs): a log-structured    *)
(* key/value store made of numbered segment files, an in-memory index of  *)
(* command positions, a pool of segment readers and a compactor.          *)
(*                                                                         *)
(* A segment file is the sequence of the encoded commands appended to it; *)
(* every encoded command carries its byte length, so that offsets,        *)
(* lengths and the uncompacted counter are byte counts as in the code.    *)
(***************************************************************************)
EXTENDS Integers, Sequences, FiniteSets, TLC

VARIABLES
    disk,          \* the directory: segment id -> content of <id>.log
    st,            \* "closed" (no KvStore instance) or "open"
    segment,       \* KvStore.segment
    offset,        \* KvStore.offset
    uncompacted,   \* KvStore.uncompacted
    index,         \* KvStore.index: key -> CommandPosition
    readers,       \* KvStore.readers: the segment ids that have a reader
    hist,          \* history: key -> the result its set/remove history dictates
    ever,          \* history: every segment id that ever named a file
    last,          \* history: the last state-changing operation and its outcome
    nops,          \* number of commands appended so far
    nopens,        \* number of times the directory was opened
    lastset,       \* history: key -> the value of its most recent set
    names,         \* the file names of a directory given to sorted_segments
    listing        \* what sorted_segments returned for names

vars == <<disk, st, segment, offset, uncompacted, index, readers, hist, ever, last, nops, nopens,
          lastset, names, listing>>

\* The directory listing under study; the store's own runs leave it alone.
listed == <<names, listing>>

\* sorted_segments has not been called on the current names.
NotListed == [done |-> FALSE, ids |-> <<>>]

store == <<st, segment, offset, uncompacted, index, readers>>

-----------------------------------------------------------------------------
(* Bounds of the model *)

MaxOps == 3        \* commands appended over the whole run
MaxSeg == 6        \* highest segment id the run may allocate
MaxOpens == 2      \* times the directory is opened over the whole run
LongLen == 600000  \* byte length of the long value
ShortLen == 500000 \* byte length of the short value

Keys == {"a", "b"}

NoValue == [id |-> 0, len |-> 0]

\* A value is a string; the model keeps its identity and its byte length.
Values == {[id |-> 1, len |-> LongLen], [id |-> 2, len |-> ShortLen]}

-----------------------------------------------------------------------------
(* Results *)

None == [tag |-> "None", value |-> NoValue]
Some(v) == [tag |-> "Some", value |-> v]
Err == [tag |-> "Err", value |-> NoValue]

-----------------------------------------------------------------------------
(* Commands and their encoding *)

COMPACTION_THRESHOLD == 1024 * 1024

CmdSet(k, v) == [op |-> "Set", key |-> k, value |-> v]
CmdRemove(k) == [op |-> "Remove", key |-> k, value |-> NoValue]

\* serde_json::to_vec of a Command: {"Set":{"key":"k","value":"v"}} is
\* 29 bytes of framing plus key and value, {"Remove":{"key":"k"}} is 21
\* bytes plus the key.
to_vec(cmd) ==
    [op |-> cmd.op, key |-> cmd.key, value |-> cmd.value,
     len |-> IF cmd.op = "Set"
             THEN 29 + Len(cmd.key) + cmd.value.len
             ELSE 21 + Len(cmd.key)]

\* Bytes that do not decode to a Command (a truncated or malformed record).
BadBytes(n) == [op |-> "Bad", key |-> "", value |-> NoValue, len |-> n]

RECURSIVE SumLen(_)
SumLen(f) == IF f = <<>> THEN 0 ELSE f[1].len + SumLen(Tail(f))

\* Byte size of a segment file.
FileSize(f) == SumLen(f)

\* Byte offset at which the i-th record of file f starts.
StartOf(f, i) == SumLen(SubSeq(f, 1, i - 1))

\* The records of f that start at byte offset off (at most one).
RecordsAt(f, off) == {i \in 1..Len(f) : StartOf(f, i) = off}

Max(S) == CHOOSE x \in S : \A y \in S : y <= x
Min(S) == CHOOSE x \in S : \A y \in S : x <= y

\* A function without the key k.
Without(f, k) == [x \in DOMAIN f \ {k} |-> f[x]]

\* A function with k bound to v.
With(f, k, v) == [x \in DOMAIN f \cup {k} |-> IF x = k THEN v ELSE f[x]]

\* All iteration orders of a set (HashMap iteration order is arbitrary).
Orders(S) ==
    {o \in [1..Cardinality(S) -> S] : \A i, j \in DOMAIN o : o[i] = o[j] => i = j}

-----------------------------------------------------------------------------
(* Segment files *)

\* The ids of the <id>.log files of the directory, ascending.
sorted_segments(d) == DOMAIN d

\* OpenOptions append+create: the file is created empty unless it exists.
new_segment(d, seg) == IF seg \in DOMAIN d THEN d ELSE With(d, seg, <<>>)

\* Decoding one command from the reader of file f at byte offset off:
\* None at end of file, the command when a record starts there, an error
\* when the bytes there do not decode.
read_value(rdrs, d, seg, off) ==
    IF seg \notin rdrs THEN None
    ELSE LET f == d[seg]
         IN IF off >= FileSize(f) THEN None
            ELSE IF RecordsAt(f, off) = {} THEN Err
            ELSE LET r == f[CHOOSE i \in RecordsAt(f, off) : TRUE]
                 IN IF r.op = "Bad" THEN Err
                    ELSE IF r.op = "Set" THEN Some(r.value)
                    ELSE None

\* KvStore::get on the given index, readers and directory.
get_in(idx, rdrs, d, key) ==
    IF key \notin DOMAIN idx THEN None
    ELSE read_value(rdrs, d, idx[key][1], idx[key][2])

get(key) == get_in(index, readers, disk, key)

-----------------------------------------------------------------------------
(* Recovery: load_segment and open *)

\* The loop of load_segment over the records of file f from record i on:
\* a Set inserts the position (segment, offset, length), a Remove deletes
\* the key, the length of a displaced position is added to uncompacted,
\* and a record that does not decode aborts with an error.
RECURSIVE load_loop(_, _, _, _, _)
load_loop(f, i, seg, idx, unc) ==
    IF i > Len(f) THEN [ok |-> TRUE, index |-> idx, uncompacted |-> unc]
    ELSE LET r == f[i]
             off == StartOf(f, i)
             old == IF r.key \in DOMAIN idx THEN idx[r.key][3] ELSE 0
         IN IF r.op = "Bad"
            THEN [ok |-> FALSE, index |-> idx, uncompacted |-> unc]
            ELSE IF r.op = "Remove"
            THEN load_loop(f, i + 1, seg, Without(idx, r.key), unc + old)
            ELSE load_loop(f, i + 1, seg, With(idx, r.key, <<seg, off, r.len>>), unc + old)

\* load_segment: replays one segment into the index and returns the
\* uncompacted bytes it found; the segment's reader joins the pool.
load_segment(d, seg, idx) == load_loop(d[seg], 1, seg, idx, 0)

\* The loop of open over the segments, ascending.
RECURSIVE load_all(_, _, _, _, _)
load_all(d, segs, idx, unc, rdrs) ==
    IF segs = {} THEN [ok |-> TRUE, index |-> idx, uncompacted |-> unc, readers |-> rdrs]
    ELSE LET seg == Min(segs)
             r == load_segment(d, seg, idx)
         IN IF ~r.ok
            THEN [ok |-> FALSE, index |-> idx, uncompacted |-> unc, readers |-> rdrs]
            ELSE load_all(d, segs \ {seg}, r.index, unc + r.uncompacted, rdrs \cup {seg})

\* The new active segment's id taken from the first listed segment.
first_segment_id(segs) == IF segs = {} THEN 1 ELSE Min(segs) + 1

\* The id open gives the new active segment: segments.last() + 1, or 1.
next_segment_id(segs) == IF segs = {} THEN 1 ELSE Max(segs) + 1

\* KvStore::open with the new active segment created before the replay.
open_create_first(d) ==
    LET segs == sorted_segments(d)
        r == load_all(d, segs, <<>>, 0, {})
        seg == next_segment_id(segs)
    IN IF ~r.ok
       THEN [ok |-> FALSE, d |-> new_segment(d, seg),
             s |-> [segment |-> 0, offset |-> 0, uncompacted |-> 0,
                    index |-> <<>>, readers |-> {}]]
       ELSE [ok |-> TRUE, d |-> new_segment(d, seg),
             s |-> [segment |-> seg, offset |-> 0, uncompacted |-> r.uncompacted,
                    index |-> r.index, readers |-> r.readers \cup {seg}]]

\* KvStore::open on directory d: the result, the directory afterwards and
\* the fields of the new instance.
open(d) ==
    LET segs == sorted_segments(d)
        r == load_all(d, segs, <<>>, 0, {})
        seg == next_segment_id(segs)
    IN IF ~r.ok
       THEN [ok |-> FALSE, d |-> d,
             s |-> [segment |-> 0, offset |-> 0, uncompacted |-> 0,
                    index |-> <<>>, readers |-> {}]]
       ELSE [ok |-> TRUE, d |-> new_segment(d, seg),
             s |-> [segment |-> seg, offset |-> 0, uncompacted |-> r.uncompacted,
                    index |-> r.index, readers |-> r.readers \cup {seg}]]

-----------------------------------------------------------------------------
(* Compaction and the write path *)

\* seek to the position's offset and copy exactly its length in bytes.
copy_record(d, pos) ==
    LET f == d[pos[1]]
        at == {i \in RecordsAt(f, pos[2]) : f[i].len = pos[3]}
    IN IF at = {} THEN BadBytes(pos[3]) ELSE f[CHOOSE i \in at : TRUE]

\* Sum of the lengths of the first n positions of the iteration order.
RECURSIVE copied_len(_, _, _)
copied_len(idx, order, n) ==
    IF n = 0 THEN 0 ELSE idx[order[n]][3] + copied_len(idx, order, n - 1)

\* The compaction offset never advanced.
compact_offset_stuck(idx, order, i) == 0

\* compact_offset when the i-th entry of the iteration order is visited: it
\* was advanced by the length of every entry visited before.
compact_offset(idx, order, i) == copied_len(idx, order, i - 1)

\* KvStore::compact on store fields s and directory d, visiting the index
\* in the given order. The expect on a missing reader panics: the entries
\* visited before it were copied, and the target's buffer reaches the file
\* when the panic unwinds and is lost when it aborts.
compact(s, d, order, unwind) ==
    LET compact_segment == s.segment + 1
        d0 == new_segment(d, compact_segment)
        missing == {i \in 1..Len(order) : s.index[order[i]][1] \notin s.readers}
        n == IF missing = {} THEN Len(order) ELSE Min(missing) - 1
        copied == [i \in 1..n |-> copy_record(d, s.index[order[i]])]
        idx1 == [k \in DOMAIN s.index |->
                   IF \E i \in 1..n : order[i] = k
                   THEN LET i == CHOOSE j \in 1..n : order[j] = k
                        IN <<compact_segment, compact_offset(s.index, order, i), s.index[k][3]>>
                   ELSE s.index[k]]
        d1 == [d0 EXCEPT ![compact_segment] = @ \o copied]
        new_active == s.segment + 2
        d2 == new_segment(d1, new_active)
        rd1 == s.readers \cup {new_active}
        stale_segments == {r \in rd1 : r < compact_segment}
    IN IF missing # {}
       THEN [res |-> "Panic", compacted |-> FALSE,
             d |-> IF unwind THEN d1 ELSE d0,
             s |-> [s EXCEPT !.index = idx1]]
       ELSE [res |-> "Ok", compacted |-> TRUE,
             d |-> [x \in DOMAIN d2 \ stale_segments |-> d2[x]],
             s |-> [segment |-> new_active, offset |-> 0, uncompacted |-> 0,
                    index |-> idx1, readers |-> rd1 \ stale_segments]]

\* The part of apply before the threshold test: append and flush the
\* encoded command, update the index, account the displaced position and
\* advance the offset.
\* The running offset never advanced.
offset_stuck(off, cmd_length) == off

\* self.offset += cmd_length.
offset_advance(off, cmd_length) == off + cmd_length

apply_write(s, d, cmd) ==
    LET res == to_vec(cmd)
        cmd_length == res.len
        old == IF cmd.key \in DOMAIN s.index THEN s.index[cmd.key][3] ELSE 0
        idx1 == IF cmd.op = "Remove"
                THEN Without(s.index, cmd.key)
                ELSE With(s.index, cmd.key, <<s.segment, s.offset, cmd_length>>)
    IN [d |-> [d EXCEPT ![s.segment] = Append(@, res)],
        s |-> [s EXCEPT !.index = idx1,
                        !.uncompacted = @ + old,
                        !.offset = offset_advance(@, cmd_length)]]

\* Whether apply of cmd runs the compactor.
triggers(s, d, cmd) == apply_write(s, d, cmd).s.uncompacted > COMPACTION_THRESHOLD

\* KvStore::apply.
apply(s, d, cmd, order, unwind) ==
    LET w == apply_write(s, d, cmd)
    IN IF w.s.uncompacted > COMPACTION_THRESHOLD
       THEN compact(w.s, w.d, order, unwind)
       ELSE [res |-> "Ok", compacted |-> FALSE, d |-> w.d, s |-> w.s]

-----------------------------------------------------------------------------
(* The state machine *)

\* The fields of the running instance.
self == [segment |-> segment, offset |-> offset, uncompacted |-> uncompacted,
         index |-> index, readers |-> readers]

NoStore == [segment |-> 0, offset |-> 0, uncompacted |-> 0,
            index |-> <<>>, readers |-> {}]

NoPre == [k \in Keys |-> None]

\* The record of a public operation: its name and arguments, its result,
\* whether the compactor ran to completion inside it, and what get
\* returned and which keys the index held right before the compactor ran.
Outcome(op, key, value, res, compacted, pre, prekeys) ==
    [op |-> op, key |-> key, value |-> value, res |-> res,
     compacted |-> compacted, pre |-> pre, prekeys |-> prekeys]

Plain(op, key, value, res) == Outcome(op, key, value, res, FALSE, NoPre, {})

\* The fields of the instance after an operation; a panic ends the process.
Install(res, s) ==
    /\ st' = IF res = "Panic" THEN "closed" ELSE "open"
    /\ LET t == IF res = "Panic" THEN NoStore ELSE s
       IN /\ segment' = t.segment
          /\ offset' = t.offset
          /\ uncompacted' = t.uncompacted
          /\ index' = t.index
          /\ readers' = t.readers

Init ==
    /\ disk = <<>>
    /\ st = "closed"
    /\ segment = 0
    /\ offset = 0
    /\ uncompacted = 0
    /\ index = <<>>
    /\ readers = {}
    /\ hist = [k \in Keys |-> None]
    /\ ever = {}
    /\ last = Plain("init", "", NoValue, "Ok")
    /\ nops = 0
    /\ nopens = 0
    /\ lastset = [k \in Keys |-> NoValue]
    /\ names = {}
    /\ listing = NotListed

\* KvStore::open on the directory.
Open ==
    /\ st = "closed"
    /\ nopens < MaxOpens
    /\ next_segment_id(sorted_segments(disk)) <= MaxSeg
    /\ LET r == open(disk)
       IN /\ disk' = r.d
          /\ ever' = ever \cup DOMAIN r.d
          /\ IF r.ok
             THEN Install("Ok", r.s)
             ELSE UNCHANGED store
          /\ last' = Plain("open", "", NoValue, IF r.ok THEN "Ok" ELSE "Err")
    /\ nopens' = nopens + 1
    /\ UNCHANGED <<hist, nops, lastset, listed>>

\* The instance is dropped (the process ends); every write was flushed.
Close ==
    /\ st = "open"
    /\ st' = "closed"
    /\ segment' = 0
    /\ offset' = 0
    /\ uncompacted' = 0
    /\ index' = <<>>
    /\ readers' = {}
    /\ last' = Plain("close", "", NoValue, "Ok")
    /\ UNCHANGED <<disk, hist, ever, nops, nopens, lastset, listed>>

\* The iteration orders of the index that a run of the compactor may take
\* (one fixed order stands for all when the compactor does not run).
IterOrders(s, runs) ==
    IF runs THEN Orders(DOMAIN s.index)
    ELSE {CHOOSE o \in Orders(DOMAIN s.index) : TRUE}

\* Whether a panic of the compactor unwinds (flushing the target's buffer)
\* or aborts: either, when some index entry has no reader.
Unwinds(s, runs) ==
    IF runs /\ \E k \in DOMAIN s.index : s.index[k][1] \notin s.readers
    THEN BOOLEAN ELSE {TRUE}

\* The effect of apply(cmd) on the whole state.
Apply(op, cmd, newhist) ==
    /\ nops < MaxOps
    /\ triggers(self, disk, cmd) => segment + 2 <= MaxSeg
    /\ LET w == apply_write(self, disk, cmd)
       IN \E order \in IterOrders(w.s, triggers(self, disk, cmd)),
             unwind \in Unwinds(w.s, triggers(self, disk, cmd)) :
            LET r == apply(self, disk, cmd, order, unwind)
            IN /\ disk' = r.d
               /\ ever' = ever \cup DOMAIN r.d
               /\ Install(r.res, r.s)
               /\ last' = IF r.compacted
                          THEN Outcome(op, cmd.key, cmd.value, r.res, TRUE,
                                       [k \in Keys |-> get_in(w.s.index, w.s.readers, w.d, k)],
                                       DOMAIN w.s.index)
                          ELSE Plain(op, cmd.key, cmd.value, r.res)
    /\ hist' = [hist EXCEPT ![cmd.key] = newhist]
    /\ lastset' = IF cmd.op = "Set" THEN [lastset EXCEPT ![cmd.key] = cmd.value] ELSE lastset
    /\ nops' = nops + 1
    /\ UNCHANGED <<nopens, listed>>

\* KvStore::set.
Set(key, value) ==
    /\ st = "open"
    /\ Apply("set", CmdSet(key, value), Some(value))

\* What KvStore::remove(key) returns in the current state, short of a panic
\* of the compactor.
remove_result(key) == IF key \notin DOMAIN index THEN "KeyNotFound" ELSE "Ok"

\* KvStore::remove of a key the index does not hold: the early return,
\* before apply.
RemoveMissing(key) ==
    /\ st = "open"
    /\ remove_result(key) = "KeyNotFound"
    /\ UNCHANGED vars

\* KvStore::remove of a key the index holds.
Remove(key) ==
    /\ st = "open"
    /\ remove_result(key) = "Ok"
    /\ Apply("remove", CmdRemove(key), None)

\* KvStore::get: it returns get(key) and changes no field and no file (the
\* reader it uses is repositioned by a seek before every read).
Get(key) ==
    /\ st = "open"
    /\ get(key) \in {None, Err} \cup {Some(v) : v \in Values}
    /\ UNCHANGED vars

\* KvStore::compact called directly.
Compact ==
    /\ st = "open"
    /\ segment + 2 <= MaxSeg
    /\ \E order \in IterOrders(self, TRUE), unwind \in Unwinds(self, TRUE) :
         LET r == compact(self, disk, order, unwind)
         IN /\ disk' = r.d
            /\ ever' = ever \cup DOMAIN r.d
            /\ Install(r.res, r.s)
            /\ last' = IF r.compacted
                       THEN Outcome("compact", "", NoValue, r.res, TRUE,
                                    [k \in Keys |-> get(k)], DOMAIN index)
                       ELSE Plain("compact", "", NoValue, r.res)
    /\ UNCHANGED <<hist, nops, nopens, lastset, listed>>

Next ==
    \/ Open
    \/ Close
    \/ \E key \in Keys, value \in Values : Set(key, value)
    \/ \E key \in Keys : RemoveMissing(key)
    \/ \E key \in Keys : Remove(key)
    \/ \E key \in Keys : Get(key)
    \/ Compact

Spec == Init /\ [][Next]_vars

\* One store opened on the empty directory and used through set, remove
\* and get only: the compactor runs only when the threshold triggers it.
NextOneStore ==
    \/ Open
    \/ \E key \in Keys, value \in Values : Set(key, value)
    \/ \E key \in Keys : RemoveMissing(key)
    \/ \E key \in Keys : Remove(key)
    \/ \E key \in Keys : Get(key)

SpecOneStore == Init /\ [][NextOneStore]_vars

\* Damage to the log from outside the store while no instance is open:
\* record i of a segment becomes bytes that do not decode.
Corrupt(seg, i) ==
    /\ st = "closed"
    /\ \A s \in DOMAIN disk : \A j \in DOMAIN disk[s] : disk[s][j].op # "Bad"
    /\ disk' = [disk EXCEPT ![seg][i] = BadBytes(@.len)]
    /\ last' = Plain("corrupt", "", NoValue, "Ok")
    /\ UNCHANGED <<store, hist, ever, nops, nopens, lastset, listed>>

\* The last record of a segment loses its final byte (a truncated log).
Truncate(seg) ==
    /\ st = "closed"
    /\ disk[seg] # <<>>
    /\ \A s \in DOMAIN disk : \A j \in DOMAIN disk[s] : disk[s][j].op # "Bad"
    /\ disk' = [disk EXCEPT ![seg][Len(disk[seg])] = BadBytes(@.len - 1)]
    /\ last' = Plain("truncate", "", NoValue, "Ok")
    /\ UNCHANGED <<store, hist, ever, nops, nopens, lastset, listed>>

NextCorrupt ==
    \/ Next
    \/ \E seg \in DOMAIN disk : \E i \in DOMAIN disk[seg] : Corrupt(seg, i)
    \/ \E seg \in DOMAIN disk : Truncate(seg)

SpecCorrupt == Init /\ [][NextCorrupt]_vars

-----------------------------------------------------------------------------
(* Measures of the directory and the index *)

RECURSIVE TotalBytes(_)
TotalBytes(d) ==
    IF DOMAIN d = {} THEN 0
    ELSE LET s == Min(DOMAIN d) IN FileSize(d[s]) + TotalBytes(Without(d, s))

RECURSIVE IndexBytes(_)
IndexBytes(idx) ==
    IF DOMAIN idx = {} THEN 0
    ELSE LET k == CHOOSE x \in DOMAIN idx : TRUE IN idx[k][3] + IndexBytes(Without(idx, k))

\* The on-disk log: the records of all segments, segment id ascending and
\* offset ascending within a segment.
RECURSIVE Log(_)
Log(d) ==
    IF DOMAIN d = {} THEN <<>>
    ELSE LET s == Min(DOMAIN d) IN d[s] \o Log(Without(d, s))

\* Whether the most recent command of the log that affects key is a Set.
LastIsSet(d, key) ==
    LET l == Log(d)
        at == {i \in DOMAIN l : l[i].key = key}
    IN at # {} /\ l[Max(at)].op = "Set"

HasBad(d) == \E s \in DOMAIN d : \E i \in DOMAIN d[s] : d[s][i].op = "Bad"

-----------------------------------------------------------------------------
(* Claims *)

\* C1 (round trip): on one open store used through set and remove only,
\* get(key) returns the value of the most recent set of the key when no
\* remove followed it, and not found otherwise, also after sequences that
\* push uncompacted over the threshold.
C1_RoundTrip ==
    st = "open" => \A k \in Keys : get(k) = hist[k]

\* C2 (compaction transparency): right after compact returned Ok, called
\* directly or triggered inside set/remove, get(key) and the outcome of
\* remove(key) are what they were right before compact ran.
C2_CompactionTransparent ==
    (st = "open" /\ last.compacted) =>
        \A k \in Keys :
            /\ get(k) = last.pre[k]
            /\ (remove_result(k) = "Ok") <=> (k \in last.prekeys)

\* C3 (persistence): a new instance opened on the directory after the old
\* one was dropped returns for every key the result that the set/remove
\* history dictates.
C3_Persistence ==
    (st = "open" /\ last.op = "open") => \A k \in Keys : get(k) = hist[k]

\* C4 (remove semantics): remove(key) on a key that was never set, or whose
\* most recent command is a remove, returns KeyNotFound (and so, taking the
\* early return, changes no field and no file).
C4_RemoveKeyNotFound ==
    st = "open" =>
        \A k \in Keys : hist[k] = None =>
            /\ remove_result(k) = "KeyNotFound"
            /\ ENABLED RemoveMissing(k)

\* C5 (get / index agreement): get(key) returns not found exactly when the
\* key is absent from the index, that is exactly when remove(key) would
\* fail with KeyNotFound; for a key of the index get returns Some(value).
C5_GetAgreesWithIndex ==
    st = "open" =>
        \A k \in Keys :
            /\ (get(k) = None) <=> (k \notin DOMAIN index)
            /\ (get(k) = None) <=> (remove_result(k) = "KeyNotFound")
            /\ k \in DOMAIN index => get(k).tag = "Some"

\* C6 (space reclamation): right after compact returned Ok the segment
\* files are exactly the compaction target and the new, empty active
\* segment, and the bytes of all files are the bytes of the commands the
\* index references.
C6_SpaceReclaimed ==
    (st = "open" /\ last.compacted) =>
        /\ DOMAIN disk = {segment - 1, segment}
        /\ disk[segment] = <<>>
        /\ TotalBytes(disk) = IndexBytes(index)

\* C7 (segment ids are never reused): every segment file a step creates
\* has an id greater than the id of every file that ever existed in the
\* directory; open creates max existing id + 1 (1 in an empty directory),
\* a completed compaction creates active + 1 and active + 2.
C7_IdsNeverReused ==
    [][LET created == DOMAIN disk' \ DOMAIN disk
       IN /\ \A s \in created : \A e \in ever : s > e
          /\ (nopens' # nopens /\ st' = "open") =>
                created = {IF DOMAIN disk = {} THEN 1 ELSE Max(DOMAIN disk) + 1}
          /\ last'.compacted => created = {segment + 1, segment + 2}]_vars

\* A store reopened on a directory from which compaction deleted files,
\* and compacted again.
C7_Witness ==
    /\ st = "open"
    /\ nopens = 2
    /\ last.compacted
    /\ ever \ DOMAIN disk # {}
    /\ segment > 4

\* C8 (idempotent duplicate set): a set(k, v) that follows a set(k, v)
\* leaves get(k) as it was after the first, and increases uncompacted by
\* the encoded length of the first record unless it triggers compaction,
\* which resets uncompacted to 0.
C8_DuplicateSet ==
    [][\A k \in Keys, v \in Values :
        (/\ st = "open"
         /\ last.op = "set" /\ last.key = k /\ last.value = v /\ last.res = "Ok"
         /\ Set(k, v)
         /\ st' = "open")
        => /\ get(k)' = get(k)
           /\ \/ uncompacted' = uncompacted + index[k][3]
              \/ last'.compacted /\ uncompacted' = 0]_vars

\* C9 (open is all-or-nothing on a bad log): when a segment holds a record
\* that does not decode, open returns an error, produces no instance and
\* leaves the directory unchanged; no new active segment file is created.
C9_OpenAllOrNothing ==
    [][(st = "closed" /\ HasBad(disk) /\ nopens' # nopens) =>
        /\ last'.op = "open" /\ last'.res = "Err"
        /\ st' = "closed"
        /\ index' = <<>> /\ readers' = {}
        /\ disk' = disk]_vars

\* A failed open on a directory with several segments, one of them bad.
C9_Witness ==
    /\ last.op = "open" /\ last.res = "Err"
    /\ st = "closed"
    /\ HasBad(disk)
    /\ Cardinality(DOMAIN disk) >= 2

\* C10 (index invariant): a key is in the index if and only if the most
\* recent command affecting it in on-disk log order is a Set.
C10_IndexInvariant ==
    st = "open" => \A k \in Keys : (k \in DOMAIN index) <=> LastIsSet(disk, k)

\* C11 (index/disk agreement): every index entry key -> (segment, offset,
\* length) names a segment file that exists, with offset + length within
\* the file's size, and the bytes [offset, offset + length) of the file are
\* exactly one encoded Set record of that key holding the key's most
\* recently set value.
C11_IndexAgreesWithDisk ==
    st = "open" =>
        \A k \in DOMAIN index :
            LET pos == index[k]
            IN /\ pos[1] \in DOMAIN disk
               /\ pos[2] + pos[3] <= FileSize(disk[pos[1]])
               /\ \E i \in RecordsAt(disk[pos[1]], pos[2]) :
                    LET r == disk[pos[1]][i]
                    IN /\ r.len = pos[3]
                       /\ r.op = "Set"
                       /\ r.key = k
                       /\ r.value = lastset[k]

\* C12 (reader pool invariant): the reader pool has an entry for every
\* segment file on disk and for no deleted segment; in particular every
\* segment an index entry references and the active segment have a reader.
C12_ReaderPool ==
    st = "open" =>
        /\ readers = DOMAIN disk
        /\ \A k \in DOMAIN index : index[k][1] \in readers
        /\ segment \in readers

\* The index right before the compactor ran in the step that made last'.
PreCompactIndex ==
    IF last'.op = "compact" THEN index
    ELSE apply_write(self, disk,
                     IF last'.op = "set" THEN CmdSet(last'.key, last'.value)
                     ELSE CmdRemove(last'.key)).s.index

\* C13 (compaction post-condition on the index): right after compact
\* returned Ok the index has the same keys and per-key lengths as before,
\* every entry is in the compaction target (old active id + 1), the byte
\* ranges of the entries tile the target file from 0 to its size without
\* gap or overlap, and the active segment is old active id + 2 with offset
\* 0 and uncompacted 0.
C13_CompactionPostcondition ==
    [][(last'.compacted /\ segment' # segment) =>
        LET pre == PreCompactIndex
            target == segment + 1
        IN /\ DOMAIN index' = DOMAIN pre
           /\ \A k \in DOMAIN pre :
                /\ index'[k][3] = pre[k][3]
                /\ index'[k][1] = target
                /\ index'[k][2] >= 0
                /\ index'[k][2] + index'[k][3] <= FileSize(disk'[target])
           /\ \A k1, k2 \in DOMAIN pre :
                k1 # k2 => \/ index'[k1][2] + index'[k1][3] <= index'[k2][2]
                           \/ index'[k2][2] + index'[k2][3] <= index'[k1][2]
           /\ IndexBytes(index') = FileSize(disk'[target])
           /\ segment' = segment + 2
           /\ offset' = 0
           /\ uncompacted' = 0]_vars

\* A completed compaction of an index of two entries.
C13_Witness ==
    /\ st = "open"
    /\ last.compacted
    /\ Cardinality(DOMAIN index) = 2
    /\ \A k \in DOMAIN index : index[k][1] = segment - 1

\* C14 (compaction always finds its source readers): compact locates a
\* reader for the segment of every live index entry, so the expect on a
\* missing segment reader never fires and compact runs to completion.
C14_CompactNeverPanics == last.res # "Panic"

\* C15 (uncompacted accounting): the uncompacted counter equals the bytes
\* of all segment files that are not reachable from the index, that is the
\* total bytes of the files minus the lengths of the index entries,
\* counting superseded Set records and the Set and Remove records of
\* removed keys.
C15_UncompactedAccounting ==
    st = "open" => uncompacted = TotalBytes(disk) - IndexBytes(index)

\* C16 (replay agrees with incremental maintenance): in every state of an
\* instance, a new instance opened on the same directory would rebuild
\* exactly the index entries and the uncompacted value the instance has.
C16_ReplayAgrees ==
    st = "open" =>
        LET r == open(disk)
        IN /\ r.ok
           /\ r.s.index = index
           /\ r.s.uncompacted = uncompacted

\* C17 (compaction trigger): a set or remove runs the compactor before
\* returning if and only if uncompacted, after adding the displaced
\* entry's length, is greater than the threshold; so whenever a set or
\* remove has returned Ok, and right after open, uncompacted is at most the
\* threshold.
C17_CompactionTrigger ==
    [][/\ \A k \in Keys, v \in Values :
            Set(k, v) => ((last'.compacted \/ last'.res = "Panic")
                            <=> triggers(self, disk, CmdSet(k, v)))
       /\ \A k \in Keys :
            Remove(k) => ((last'.compacted \/ last'.res = "Panic")
                            <=> triggers(self, disk, CmdRemove(k)))
       /\ (st' = "open" /\ last'.op \in {"set", "remove", "open"} /\ last'.res = "Ok")
            => uncompacted' <= COMPACTION_THRESHOLD]_vars

-----------------------------------------------------------------------------
(* A process that stops inside the compactor *)

\* The directories a process can leave when it stops after a prefix of the
\* file-system steps of compact: the target created and some of the
\* records copied to it, in iteration order; or the whole copy flushed, the
\* new active segment created and any subset of the stale segment files
\* removed (the stale list is collected from a HashMap, in any order).
compact_prefixes(s, d, order) ==
    LET compact_segment == s.segment + 1
        d0 == new_segment(d, compact_segment)
        missing == {i \in 1..Len(order) : s.index[order[i]][1] \notin s.readers}
        n == IF missing = {} THEN Len(order) ELSE Min(missing) - 1
        copies(m) == [d0 EXCEPT ![compact_segment] =
                         @ \o [i \in 1..m |-> copy_record(d, s.index[order[i]])]]
        new_active == s.segment + 2
        d2 == new_segment(copies(n), new_active)
        stale_segments == {r \in s.readers \cup {new_active} : r < compact_segment}
    IN {copies(m) : m \in 0..n}
       \cup (IF missing # {} THEN {}
             ELSE {[x \in DOMAIN d2 \ gone |-> d2[x]] : gone \in SUBSET stale_segments})

\* The process stops inside a direct call of compact.
CrashInCompact ==
    /\ st = "open"
    /\ segment + 2 <= MaxSeg
    /\ \E order \in IterOrders(self, TRUE) :
         \E left \in compact_prefixes(self, disk, order) :
            /\ disk' = left
            /\ ever' = ever \cup DOMAIN left
    /\ Install("Panic", NoStore)
    /\ last' = Outcome("crash", "", NoValue, "Crash", FALSE,
                       [k \in Keys |-> get(k)], DOMAIN index)
    /\ UNCHANGED <<hist, nops, nopens, lastset, listed>>

\* The process stops inside the compaction that apply(cmd) triggers; the
\* command itself was appended and flushed before.
CrashInApply(cmd, newhist) ==
    /\ st = "open"
    /\ nops < MaxOps
    /\ cmd.op = "Remove" => remove_result(cmd.key) = "Ok"
    /\ triggers(self, disk, cmd)
    /\ segment + 2 <= MaxSeg
    /\ LET w == apply_write(self, disk, cmd)
       IN /\ \E order \in IterOrders(w.s, TRUE) :
               \E left \in compact_prefixes(w.s, w.d, order) :
                  /\ disk' = left
                  /\ ever' = ever \cup DOMAIN left
          /\ last' = Outcome("crash", cmd.key, cmd.value, "Crash", FALSE,
                             [k \in Keys |-> get_in(w.s.index, w.s.readers, w.d, k)],
                             DOMAIN w.s.index)
    /\ Install("Panic", NoStore)
    /\ hist' = [hist EXCEPT ![cmd.key] = newhist]
    /\ lastset' = IF cmd.op = "Set" THEN [lastset EXCEPT ![cmd.key] = cmd.value] ELSE lastset
    /\ nops' = nops + 1
    /\ UNCHANGED <<nopens, listed>>

NextCrash ==
    \/ Next
    \/ CrashInCompact
    \/ \E key \in Keys, value \in Values : CrashInApply(CmdSet(key, value), Some(value))
    \/ \E key \in Keys : CrashInApply(CmdRemove(key), None)

SpecCrash == Init /\ [][NextCrash]_vars

\* C18 (a crash during compaction is recoverable): when the process stops
\* after any prefix of the file-system steps of compact and the directory
\* is reopened, open succeeds and get returns for every key what it
\* returned before the compaction started: no removed key reappears and no
\* live value is lost. Stated here for the compactions entered with a
\* reader for every segment file, the case of an instance that has not
\* compacted before.
C18_CrashRecoverable ==
    [][(st = "open" /\ readers = DOMAIN disk /\ last'.op = "crash") =>
        LET r == open(disk')
        IN /\ r.ok
           /\ \A k \in Keys : get_in(r.s.index, r.s.readers, r.d, k) = last'.pre[k]]_vars

\* C19 (active segment position): between public operations the active
\* segment is the highest-numbered segment file of the directory and the
\* running offset is the byte size of that file; the position recorded for
\* a Set that did not run the compactor is where the append put the record.
C19_ActiveSegmentPosition ==
    /\ [](st = "open" =>
            /\ segment \in DOMAIN disk
            /\ segment = Max(DOMAIN disk)
            /\ offset = FileSize(disk[segment]))
    /\ [][\A k \in Keys, v \in Values :
            (Set(k, v) /\ ~last'.compacted /\ st' = "open") =>
                /\ index'[k] = <<segment, FileSize(disk[segment]), to_vec(CmdSet(k, v)).len>>
                /\ \E i \in RecordsAt(disk'[segment], index'[k][2]) :
                     disk'[segment][i] = to_vec(CmdSet(k, v))]_vars

\* C19 witness: a Set was appended behind earlier records of the active
\* segment and its recorded position starts at a positive offset.
C19_Witness ==
    /\ st = "open"
    /\ last.op = "set"
    /\ ~last.compacted
    /\ last.key \in DOMAIN index
    /\ index[last.key][1] = segment
    /\ index[last.key][2] > 0
    /\ offset = index[last.key][2] + index[last.key][3]

-----------------------------------------------------------------------------
\* The directory as file names. A name is a sequence of characters, an entry
\* a name with its kind (regular file or directory).

LOG == <<".", "l", "o", "g">>

File(name) == [name |-> name, is_file |-> TRUE]

Dir(name) == [name |-> name, is_file |-> FALSE]

\* The entries a directory under study may hold.
Entries ==
    { File(<<"1">> \o LOG),
      File(<<"2">> \o LOG),
      File(<<"1", "0">> \o LOG),
      File(<<"0", "1">> \o LOG),
      File(<<"+", "1">> \o LOG),
      File(<<"1">> \o LOG \o LOG),
      File(<<"x">> \o LOG),
      File(<<"1", ".", "t", "x", "t">>),
      File(LOG),
      Dir(<<"3">> \o LOG) }

DigitChars == <<"0", "1", "2", "3", "4", "5", "6", "7", "8", "9">>

IsDigit(c) == \E d \in 1..10 : DigitChars[d] = c

DigitValue(c) == (CHOOSE d \in 1..10 : DigitChars[d] = c) - 1

\* Path::extension: the part of the file name after its last ".", none when
\* the name has no "." or its only "." is the first character.
NoExtension == <<"none">>

extension(name) ==
    LET dots == {i \in 1..Len(name) : name[i] = "."}
    IN IF dots = {} \/ Max(dots) = 1
       THEN NoExtension
       ELSE SubSeq(name, Max(dots) + 1, Len(name))

EndsWith(s, pat) ==
    /\ Len(s) >= Len(pat)
    /\ SubSeq(s, Len(s) - Len(pat) + 1, Len(s)) = pat

\* str::trim_end_matches: the suffix is removed as often as it matches.
RECURSIVE trim_end_matches(_, _)
trim_end_matches(s, pat) ==
    IF EndsWith(s, pat)
    THEN trim_end_matches(SubSeq(s, 1, Len(s) - Len(pat)), pat)
    ELSE s

\* The value of a sequence of decimal digits.
RECURSIVE digits_value(_)
digits_value(s) ==
    IF s = <<>> THEN 0
    ELSE digits_value(SubSeq(s, 1, Len(s) - 1)) * 10 + DigitValue(s[Len(s)])

\* str::parse::<u64>: an optional leading "+", then one or more decimal
\* digits, leading zeros allowed. The names of Entries stay far below
\* u64::MAX, so the overflow error does not occur.
parse_u64(s) ==
    LET digits == IF s # <<>> /\ s[1] = "+" THEN Tail(s) ELSE s
    IN IF digits # <<>> /\ \A i \in 1..Len(digits) : IsDigit(digits[i])
       THEN [ok |-> TRUE, id |-> digits_value(digits)]
       ELSE [ok |-> FALSE, id |-> 0]

\* The id one directory entry contributes to sorted_segments, if any.
entry_id(e) ==
    IF e.is_file /\ extension(e.name) = <<"l", "o", "g">>
    THEN parse_u64(trim_end_matches(e.name, LOG))
    ELSE [ok |-> FALSE, id |-> 0]

\* entries.sort(): the ids in ascending order, each as often as an entry
\* contributed it.
RECURSIVE sort(_, _)
sort(es, ids) ==
    IF ids = {} THEN <<>>
    ELSE LET n == Min(ids)
             times == Cardinality({e \in es : entry_id(e).id = n})
         IN [i \in 1..times |-> n] \o sort(es, ids \ {n})

\* sorted_segments on a directory given as its entries. On a directory that
\* holds only the files the store wrote ("<n>.log", n in decimal) it returns
\* the ids in ascending order, which is what sorted_segments(d) stands for
\* in the store's own runs.
sorted_segments_in(ns) ==
    LET es == {e \in ns : entry_id(e).ok}
    IN sort(es, {entry_id(e).id : e \in es})

\* format!("{segment}"): the decimal digits of n.
RECURSIVE decimal(_)
decimal(n) ==
    IF n < 10 THEN <<DigitChars[n + 1]>>
    ELSE decimal(n \div 10) \o <<DigitChars[(n % 10) + 1]>>

\* segment_path: the file name of segment n.
segment_path(n) == decimal(n) \o LOG

\* An entry appears in the directory.
CreateEntry(e) ==
    /\ e \notin names
    /\ names' = names \cup {e}
    /\ listing' = NotListed
    /\ UNCHANGED <<disk, store, hist, ever, last, nops, nopens, lastset>>

\* sorted_segments is called on the directory.
ListSegments ==
    /\ ~listing.done
    /\ listing' = [done |-> TRUE, ids |-> sorted_segments_in(names)]
    /\ UNCHANGED <<disk, store, hist, ever, last, nops, nopens, lastset, names>>

NextListing ==
    \/ \E e \in Entries : CreateEntry(e)
    \/ ListSegments

SpecListing == Init /\ [][NextListing]_vars

\* The highest id a name of Entries could stand for.
MaxId == 12

\* C20 (segment listing): sorted_segments returns, in ascending order and
\* without duplicates, exactly the ids n for which a regular file named
\* "<n>.log" exists; every other entry contributes nothing, so every
\* returned id maps back through segment_path to an existing file.
C20_SegmentListing ==
    listing.done =>
        LET ids == listing.ids
        IN /\ \A i, j \in 1..Len(ids) : i < j => ids[i] < ids[j]
           /\ {ids[i] : i \in 1..Len(ids)} = {n \in 0..MaxId : File(segment_path(n)) \in names}
           /\ \A i \in 1..Len(ids) : File(segment_path(ids[i])) \in names

====
